---- MODULE Spec2Model ----
(***************************************************************************)
(* Model of the better-diary Obsidian plugin's file-intake pipeline        *)
(* (handleFiles / handleSingleFile / createAndInsertWithFileReader) and of *)
(* the date/path utilities it consults (utils.ts).                         *)
(*                                                                         *)
(* JavaScript strings are TLA+ strings.  An optional value (null or        *)
(* undefined in the code) is a sequence of length 0 or 1.                  *)
(*                                                                         *)
(* The event loop is modelled at the granularity of its tasks: one action  *)
(* is one uninterrupted run of code between two suspension points whose    *)
(* completion is a separate task (image compression, directory creation,   *)
(* the FileReader's loadend event, the vault's binary write).  An await on *)
(* an already settled promise only yields to the microtask queue, which    *)
(* no other task of this program can enter, so the code on both sides of   *)
(* it belongs to the same action.                                          *)
(***************************************************************************)
EXTENDS Naturals, Integers, Sequences, FiniteSets, TLC

(***************************************************************************)
(* String helpers (String.prototype.startsWith, endsWith, contains, split, *)
(* replace, padStart).                                                     *)
(***************************************************************************)
CharAt(s, k) == SubSeq(s, k, k)

StartsWith(s, p) == Len(p) <= Len(s) /\ SubSeq(s, 1, Len(p)) = p

EndsWith(s, p) == Len(p) <= Len(s) /\ SubSeq(s, Len(s) - Len(p) + 1, Len(s)) = p

\* least k with s[k .. k+Len(p)-1] = p, or 0 when p does not occur in s
IndexOf(s, p) ==
    LET hits == {k \in 1..(Len(s) - Len(p) + 1) : SubSeq(s, k, k + Len(p) - 1) = p}
    IN  IF hits = {} THEN 0 ELSE CHOOSE k \in hits : \A h \in hits : k <= h

Contains(s, p) == IndexOf(s, p) > 0

\* s.replace(v, ""): the first occurrence of v removed
RemoveFirst(s, v) ==
    LET k == IndexOf(s, v)
    IN  IF k = 0 THEN s ELSE SubSeq(s, 1, k - 1) \o SubSeq(s, k + Len(v), Len(s))

\* s.split(sep) for a one-character separator: the pieces between the
\* occurrences of sep, in order
Split(s, sep) ==
    LET seps == {k \in 1..Len(s) : CharAt(s, k) = sep}
        n == Cardinality(seps)
        cut(j) == IF j = 0 THEN 0
                  ELSE IF j = n + 1 THEN Len(s) + 1
                  ELSE CHOOSE k \in seps : Cardinality({h \in seps : h < k}) = j - 1
    IN  [j \in 1..(n + 1) |-> SubSeq(s, cut(j - 1) + 1, cut(j) - 1)]

Last(q) == q[Len(q)]

\* s.padStart(n, "0") for n up to 4
PadStart(s, n) == IF Len(s) >= n THEN s ELSE SubSeq("0000", 1, n - Len(s)) \o s

Digits == "0123456789"

IsDigit(c) == \E k \in 1..10 : CharAt(Digits, k) = c

DigitVal(c) == (CHOOSE k \in 1..10 : CharAt(Digits, k) = c) - 1

\* the number a string of digits denotes
ToInt(s) ==
    LET val[k \in 0..Len(s)] ==
            IF k = 0 THEN 0 ELSE val[k - 1] * 10 + DigitVal(CharAt(s, k))
    IN  val[Len(s)]

\* regex /\d{n}/ .exec(s): the position of the first run of n digits, or 0
FindDigits(s, n) ==
    LET hits == {k \in 1..(Len(s) - n + 1) :
                    \A j \in k..(k + n - 1) : IsDigit(CharAt(s, j))}
    IN  IF hits = {} THEN 0 ELSE CHOOSE k \in hits : \A h \in hits : k <= h

(***************************************************************************)
(* dayjs: formatting and strict parsing of a date under a token format.    *)
(* The token vocabulary is YYYY, MM and DD, and text escaped in brackets;   *)
(* every other character of a format is literal.  A date is                *)
(* [year, month (1..12), day].                                             *)
(***************************************************************************)
\* the tokens of a format, left to right: a field (YYYY, MM, DD), a run of
\* text escaped in brackets, kept with its brackets ("[Day]"), or a single
\* other character
FormatTokens(format) ==
    LET n == Len(format)
        at(k, t) == k + Len(t) - 1 <= n /\ SubSeq(format, k, k + Len(t) - 1) = t
        close(k) == LET c == {j \in (k + 2)..n : CharAt(format, j) = "]"}
                    IN  IF CharAt(format, k) # "[" \/ c = {} THEN 0
                        ELSE CHOOSE j \in c : \A h \in c : j <= h
        from[k \in 1..(n + 1)] ==
            IF k > n THEN <<>>
            ELSE IF close(k) > 0 THEN <<SubSeq(format, k, close(k))>> \o from[close(k) + 1]
            ELSE IF at(k, "YYYY") THEN <<"YYYY">> \o from[k + 4]
            ELSE IF at(k, "MM") THEN <<"MM">> \o from[k + 2]
            ELSE IF at(k, "DD") THEN <<"DD">> \o from[k + 2]
            ELSE <<CharAt(format, k)>> \o from[k + 1]
    IN  from[1]

IsEscaped(t) == Len(t) >= 3 /\ CharAt(t, 1) = "["

\* the text of an escaped token: token.replace(/^\[|\]$/g, "")
Unescaped(t) == SubSeq(t, 2, Len(t) - 1)

\* the characters customParseFormat's token pattern takes as separators
IsSeparator(c) == c \in {"-", "_", ":", "/", ".", ",", "(", ")", " "}

IsLeap(y) == (y % 4 = 0 /\ y % 100 # 0) \/ y % 400 = 0

DaysInMonth(y, m) ==
    IF m = 2 THEN (IF IsLeap(y) THEN 29 ELSE 28)
    ELSE IF m \in {4, 6, 9, 11} THEN 30 ELSE 31

RECURSIVE RollDays(_, _, _)
\* new Date(y, m - 1, d) with d past the end of the month rolls into the next
RollDays(y, m, d) ==
    IF d <= DaysInMonth(y, m) THEN [year |-> y, month |-> m, day |-> d]
    ELSE IF m = 12 THEN RollDays(y + 1, 1, d - DaysInMonth(y, m))
    ELSE RollDays(y, m + 1, d - DaysInMonth(y, m))

\* new Date(y, M, d): M is zero-based and overflows into the year; a year
\* below 100 is taken as 1900 + y
NewDate(y, M, d) ==
    LET yy == IF y < 100 THEN 1900 + y ELSE y
    IN  RollDays(yy + (M \div 12), (M % 12) + 1, d)

FormatWith(toks, date) ==
    LET piece(t) == IF t = "YYYY" THEN PadStart(ToString(date.year), 4)
                    ELSE IF t = "MM" THEN PadStart(ToString(date.month), 2)
                    ELSE IF t = "DD" THEN PadStart(ToString(date.day), 2)
                    ELSE IF IsEscaped(t) THEN Unescaped(t)
                    ELSE t
        upTo[k \in 0..Len(toks)] ==
            IF k = 0 THEN "" ELSE upTo[k - 1] \o piece(toks[k])
    IN  upTo[Len(toks)]

formatDate(format, date) == FormatWith(FormatTokens(format), date)

\* customParseFormat's makeParser, one token: escaped text and separators
\* advance the start by their length without being compared; a field token
\* takes the first digit run of its width in input.slice(start) and removes
\* that text from the input; a field that finds no digits throws; any other
\* character is no token of the parser
ParseToken(p, t) ==
    LET n == IF t = "YYYY" THEN 4 ELSE 2
        part == SubSeq(p.input, p.start + 1, Len(p.input))
        k == FindDigits(part, n)
        value == SubSeq(part, k, k + n - 1)
    IN  IF ~p.ok THEN p
        ELSE IF IsEscaped(t) THEN [p EXCEPT !.start = p.start + Len(Unescaped(t))]
        ELSE IF t \notin {"YYYY", "MM", "DD"}
             THEN IF IsSeparator(t) THEN [p EXCEPT !.start = p.start + Len(t)] ELSE p
        ELSE IF k = 0 THEN [p EXCEPT !.ok = FALSE]
        ELSE [p EXCEPT !.input = RemoveFirst(p.input, value),
                       !.time = [p.time EXCEPT ![t] = ToInt(value)]]

ParseWith(toks, input) ==
    LET after[k \in 0..Len(toks)] ==
            IF k = 0
            THEN [ok |-> TRUE, input |-> input, start |-> 0,
                  time |-> [YYYY |-> 0, MM |-> 0, DD |-> 0]]
            ELSE ParseToken(after[k - 1], toks[k])
    IN  after[Len(toks)]

\* dayjs(input, format, true): <<date>> when valid, <<>> when invalid.  A
\* field that parses to 0 is replaced by a default (today's year or month,
\* day 1), which the strict comparison below then rejects.
dayjsStrict(input, format) ==
    LET toks == FormatTokens(format)
        p == ParseWith(toks, input)
        date == NewDate(p.time.YYYY, p.time.MM - 1, p.time.DD)
    IN  IF ~p.ok \/ p.time.YYYY = 0 \/ p.time.MM = 0 \/ p.time.DD = 0 THEN <<>>
        ELSE IF FormatWith(toks, date) # input THEN <<>>
        ELSE <<date>>

\* utils.ts checkValidDailyNotePath: <<date>> or <<>> (null).  The month
\* directory test reads an array, slice(-2, -1), which is never falsy.
checkValidDailyNotePath(notePath, dateFormat) ==
    LET noteName == Split(Last(Split(notePath, "/")), ".")[1]
        date == dayjsStrict(noteName, dateFormat)
        segs == Split(notePath, "/")
        monthDir == SubSeq(segs, Len(segs) - 1, Len(segs) - 1)
        monthDirFalsy == FALSE
    IN  IF noteName = "" THEN <<>>
        ELSE IF date = <<>> THEN <<>>
        ELSE IF monthDirFalsy THEN <<>>
        ELSE date

(***************************************************************************)
(* utils.ts: the note name, the month directory and the note path of a     *)
(* date.  A Date object is passed by reference and setDate mutates it, so  *)
(* each function yields, besides what it returns (ret), the date object as *)
(* it leaves it (date).  hour is dayjs().get('hour'), the wall-clock hour   *)
(* at the call.                                                            *)
(***************************************************************************)
\* date.setDate(d) for d no later than the end of the month: day 0 is the
\* last day of the month before
SetDate(date, d) ==
    IF d >= 1 THEN [date EXCEPT !.day = d]
    ELSE IF date.month = 1
         THEN [year |-> date.year - 1, month |-> 12, day |-> DaysInMonth(date.year - 1, 12) + d]
    ELSE [year |-> date.year, month |-> date.month - 1,
          day |-> DaysInMonth(date.year, date.month - 1) + d]

\* date.toLocaleString('en-GB', { month: 'short' })
MonthShort(date) ==
    <<"Jan", "Feb", "Mar", "Apr", "May", "Jun",
      "Jul", "Aug", "Sept", "Oct", "Nov", "Dec">>[date.month]

\* a plausible slip: the month directory tested against the same hour as
\* the note name
MonthDirBoundary_NoOffset(hour, assumeSameDayBeforeHour, consider) ==
    hour < assumeSameDayBeforeHour /\ consider

\* getDailyNoteName, lines 9-10: the test that decrements the date
NameBoundary(hour, assumeSameDayBeforeHour, consider) ==
    hour < assumeSameDayBeforeHour /\ consider

\* getMonthDirPath, lines 28-29: the test that decrements the date
MonthDirBoundary(hour, assumeSameDayBeforeHour, consider) ==
    hour + 1 < assumeSameDayBeforeHour /\ consider

getDailyNoteName(hour, assumeSameDayBeforeHour, dateFormat, date, consider) ==
    LET dec == NameBoundary(hour, assumeSameDayBeforeHour, consider)
        after == IF dec THEN SetDate(date, date.day - 1) ELSE date
    IN  [date |-> after, dec |-> dec, ret |-> formatDate(dateFormat, after)]

getMonthDirPath(hour, rootDir, assumeSameDayBeforeHour, date, consider) ==
    LET dec == MonthDirBoundary(hour, assumeSameDayBeforeHour, consider)
        after == IF dec THEN SetDate(date, date.day - 1) ELSE date
    IN  [date |-> after, dec |-> dec,
         ret |-> rootDir \o "/" \o ToString(after.year) \o "/" \o MonthShort(after)]

\* a plausible slip: the boundary rule asked for in the month directory too
getDailyNotePath_BothRules(hour, rootDir, assumeSameDayBeforeHour, dateFormat, date) ==
    LET name == getDailyNoteName(hour, assumeSameDayBeforeHour, dateFormat, date, TRUE)
        dir == getMonthDirPath(hour, rootDir, assumeSameDayBeforeHour, name.date, TRUE)
    IN  [date |-> dir.date, noteName |-> name.ret, dirPath |-> dir.ret,
         nameDec |-> name.dec, dirDec |-> dir.dec,
         ret |-> dir.ret \o "/" \o name.ret \o ".md"]

\* a plausible slip: the boundary rule asked for in neither computation
getDailyNotePath_NoRule(hour, rootDir, assumeSameDayBeforeHour, dateFormat, date) ==
    LET name == getDailyNoteName(hour, assumeSameDayBeforeHour, dateFormat, date, FALSE)
        dir == getMonthDirPath(hour, rootDir, assumeSameDayBeforeHour, name.date, FALSE)
    IN  [date |-> dir.date, noteName |-> name.ret, dirPath |-> dir.ret,
         nameDec |-> name.dec, dirDec |-> dir.dec,
         ret |-> dir.ret \o "/" \o name.ret \o ".md"]

\* a plausible slip: the month directory computed from a copy of the date
\* taken before the note name was computed
getDailyNotePath_CopiedDate(hour, rootDir, assumeSameDayBeforeHour, dateFormat, date) ==
    LET name == getDailyNoteName(hour, assumeSameDayBeforeHour, dateFormat, date, TRUE)
        dir == getMonthDirPath(hour, rootDir, assumeSameDayBeforeHour, date, FALSE)
    IN  [date |-> name.date, noteName |-> name.ret, dirPath |-> dir.ret,
         nameDec |-> name.dec, dirDec |-> dir.dec,
         ret |-> dir.ret \o "/" \o name.ret \o ".md"]

\* getDailyNotePath: the note name with the boundary rule, then the month
\* directory of the same date object with the flag left at its default
getDailyNotePath(hour, rootDir, assumeSameDayBeforeHour, dateFormat, date) ==
    LET name == getDailyNoteName(hour, assumeSameDayBeforeHour, dateFormat, date, TRUE)
        dir == getMonthDirPath(hour, rootDir, assumeSameDayBeforeHour, name.date, FALSE)
    IN  [date |-> dir.date, noteName |-> name.ret, dirPath |-> dir.ret,
         nameDec |-> name.dec, dirDec |-> dir.dec,
         ret |-> dir.ret \o "/" \o name.ret \o ".md"]

(***************************************************************************)
(* Bounds and inputs.                                                      *)
(***************************************************************************)
\* the largest number of files one drop or paste event carries
MaxFiles == 2

\* an event is dropped only while the vault would hold at most this many
\* attachments once every file of the event is saved
MaxVault == 3

PngFile == [name |-> "a.png", type |-> "image/png"]

PdfFile == [name |-> "r.pdf", type |-> "application/pdf"]

TxtFile == [name |-> "t.txt", type |-> "text/plain"]

FileKinds == {PngFile, PdfFile, TxtFile}

RECURSIVE SeqsUpTo(_, _)
SeqsUpTo(S, n) ==
    IF n = 0 THEN {<<>>}
    ELSE LET shorter == SeqsUpTo(S, n - 1)
         IN  shorter \cup {Append(q, x) : q \in shorter, x \in S}

\* the event's dataTransfer: null, or a FileList (empty for pasted text)
DataTransfers ==
    {[isNull |-> TRUE, files |-> <<>>]}
        \cup {[isNull |-> FALSE, files |-> q] : q \in SeqsUpTo(FileKinds, MaxFiles)}

AllNotes ==
    [fileHandlingScenario |-> "all notes", dateFormat |-> "YYYY-MM-DD",
     imageSubDir |-> "images", otherFilesSubDir |-> "others",
     maxImageSizeKB |-> -1, preserveExifData |-> FALSE, resizeWidth |-> -1]

DailyOnly ==
    [AllNotes EXCEPT !.fileHandlingScenario = "daily notes only",
                     !.maxImageSizeKB = 512, !.resizeWidth = 300]

Disabled == [AllNotes EXCEPT !.fileHandlingScenario = "disabled"]

SettingsChoices == {AllNotes, DailyOnly, Disabled}

DailyNote == [path |-> "notes/2024-01-15.md", parent |-> "notes", basename |-> "2024-01-15"]

RootNote == [path |-> "todo.md", parent |-> "/", basename |-> "todo"]

\* the active markdown view: without a file, or on one of the two notes
Views == {[file |-> <<>>], [file |-> <<DailyNote>>], [file |-> <<RootNote>>]}

\* what a FileReader ends with: no result (a read error), or a data URL
\* whose payload is empty (an empty file) or not
Payloads == {<<>>, <<"">>, <<"QUJD">>}

VARIABLES
    vault,          \* app.vault: the paths of its files
    dataTransfer,   \* the event's dataTransfer
    settings,       \* the plugin's settings at the event
    markdownView,   \* the active view at the event
    evt,            \* the event: [defaultPrevented]
    hf,             \* handleFiles: [pc, i]
    hs,             \* handleSingleFile and its reader, per file of the event
    inserted,       \* editor.replaceSelection calls of the event, in order
    notices,        \* the Notices raised by the event
    issued,         \* storage calls issued by the event (createDirs, createBinary)
    call            \* the last call of a utility function: its arguments and outcome

vars == <<vault, dataTransfer, settings, markdownView, evt, hf, hs, inserted, notices, issued, call>>

\* no utility function has been called
NoCall == [op |-> "none"]

IsNote(path) == EndsWith(path, ".md")

Attachments(v) == {p \in v : ~IsNote(p)}

(***************************************************************************)
(* obsidian's normalizePath: repeated slashes collapsed, leading and       *)
(* trailing slashes removed.                                               *)
(***************************************************************************)
Join(segs) ==
    LET upTo[k \in 1..Len(segs)] ==
            IF k = 1 THEN segs[1] ELSE upTo[k - 1] \o "/" \o segs[k]
    IN  upTo[Len(segs)]

normalizePath(path) ==
    LET segs == SelectSeq(Split(path, "/"), LAMBDA x : x # "")
    IN  IF segs = <<>> THEN "/" ELSE Join(segs)

RECURSIVE SetToSeq(_)
\* app.vault.getFiles(): the vault's files as an array, in some order
SetToSeq(S) ==
    IF S = {} THEN <<>>
    ELSE LET x == CHOOSE y \in S : TRUE IN <<x>> \o SetToSeq(S \ {x})

\* a plausible slip: the test for notes left out of the loop
countFilesWithSamePrefix_CountsNotes(v, dirPath, prefix) ==
    LET filtered == SelectSeq(SetToSeq(v), LAMBDA path : StartsWith(path, dirPath))
        count[k \in 0..Len(filtered)] ==
            IF k = 0 THEN 0
            ELSE IF StartsWith(filtered[k], dirPath) /\ Contains(filtered[k], prefix)
                 THEN count[k - 1] + 1
            ELSE count[k - 1]
    IN  count[Len(filtered)]

\* the loop over the files under dirPath, counting those that pass its test
countFilesWithSamePrefix(v, dirPath, prefix) ==
    LET filtered == SelectSeq(SetToSeq(v), LAMBDA path : StartsWith(path, dirPath))
        count[k \in 0..Len(filtered)] ==
            IF k = 0 THEN 0
            ELSE IF /\ StartsWith(filtered[k], dirPath)
                    /\ Contains(filtered[k], prefix)
                    /\ ~EndsWith(filtered[k], ".md")
                 THEN count[k - 1] + 1
            ELSE count[k - 1]
    IN  count[Len(filtered)]

\* a plausible slip: any application/* type passes the filter
Supported_AnyApplication(file) ==
    \/ StartsWith(file.type, "image")
    \/ StartsWith(file.type, "application")
    \/ StartsWith(file.type, "text")

\* handleFiles, lines 76-78: the type filter's test of one file
Supported(file) ==
    \/ StartsWith(file.type, "image")
    \/ file.type = "application/zip"
    \/ file.type = "application/pdf"

\* a plausible slip: the daily-note test is made for every scenario but
\* applied to none
shouldHandleAccordingToConfig_NoDailyTest(st, mv) ==
    IF mv.file = <<>> THEN FALSE
    ELSE IF st.fileHandlingScenario = "disabled" THEN FALSE
    ELSE TRUE

shouldHandleAccordingToConfig(st, mv) ==
    IF mv.file = <<>> THEN FALSE
    ELSE IF st.fileHandlingScenario = "disabled" THEN FALSE
    ELSE LET date == checkValidDailyNotePath(mv.file[1].path, st.dateFormat)
         IN  IF st.fileHandlingScenario = "daily notes only" /\ date = <<>>
             THEN FALSE
             ELSE TRUE

Notice(kind, i, duration) == [kind |-> kind, file |-> i, duration |-> duration]

\* a Notice constructed with duration 0 stays until dismissed; one without
\* a duration times out
Persistent(n) == n.duration = <<0>>

IdleFile ==
    [pc |-> "idle", fileSaveSubDir |-> "", filePath |-> "", handleSuccess |-> TRUE,
     returned |-> <<>>, result |-> <<>>, ret |-> <<>>]

\* a plausible slip: the prefix counted under the image subdirectory, as the
\* comment at line 115 has it
TargetOf_CountInSubDir(file, st, mv, v) ==
    LET parent == mv.file[1].parent
        viewParentPath == IF parent = "/" THEN "" ELSE parent
        viewFileName == mv.file[1].basename
        isImage == StartsWith(file.type, "image")
        subDir == IF isImage THEN viewParentPath \o "/" \o st.imageSubDir
                  ELSE viewParentPath \o "/" \o st.otherFilesSubDir
        countPrefix == countFilesWithSamePrefix(v, normalizePath(subDir), viewFileName)
        filePrefix == IF isImage THEN viewFileName \o "-image"
                      ELSE viewFileName \o "-" \o Split(file.name, ".")[1]
        fileSuffix == IF isImage /\ countPrefix # 0
                      THEN "-" \o ToString(countPrefix) ELSE ""
        fileSaveSubDir == normalizePath(subDir)
        ext == Last(Split(file.name, "."))
        fileName == filePrefix \o fileSuffix \o "." \o ext
    IN  [fileSaveSubDir |-> fileSaveSubDir,
         filePath |-> normalizePath(fileSaveSubDir \o "/" \o fileName)]

\* handleSingleFile, lines 103-129, after the size-limiting transform: the
\* target directory and path of `file`, counted against the vault v
TargetOf(file, st, mv, v) ==
    LET parent == mv.file[1].parent
        viewParentPath == IF parent = "/" THEN "" ELSE parent
        viewFileName == mv.file[1].basename
        isImage == StartsWith(file.type, "image")
        countPrefix == countFilesWithSamePrefix(v, "", viewFileName)
        subDir == IF isImage THEN viewParentPath \o "/" \o st.imageSubDir
                  ELSE viewParentPath \o "/" \o st.otherFilesSubDir
        filePrefix == IF isImage THEN viewFileName \o "-image"
                      ELSE viewFileName \o "-" \o Split(file.name, ".")[1]
        fileSuffix == IF isImage /\ countPrefix # 0
                      THEN "-" \o ToString(countPrefix) ELSE ""
        fileSaveSubDir == normalizePath(subDir)
        ext == Last(Split(file.name, "."))
        fileName == filePrefix \o fileSuffix \o "." \o ext
    IN  [fileSaveSubDir |-> fileSaveSubDir,
         filePath |-> normalizePath(fileSaveSubDir \o "/" \o fileName)]

\* handleSingleFile from its call to its first suspension: for an image with
\* a size limit, the compression (announced by a Notice); otherwise the
\* directory creation, the path being computed on the way
BeginSingleFile(i, file, st, mv, v) ==
    IF StartsWith(file.type, "image") /\ st.maxImageSizeKB # -1
    THEN [rec |-> [IdleFile EXCEPT !.pc = "compress"],
          notes |-> {Notice("compressing", i, <<>>)},
          calls |-> {}]
    ELSE LET t == TargetOf(file, st, mv, v)
         IN  [rec |-> [IdleFile EXCEPT !.pc = "mkdir",
                                       !.fileSaveSubDir = t.fileSaveSubDir,
                                       !.filePath = t.filePath],
              notes |-> {},
              calls |-> {[op |-> "createDirs", file |-> i, path |-> t.fileSaveSubDir]}]

\* handleFiles from the event to its first suspension
HandleFilesSync(dt, st, mv, v) ==
    LET files == dt.files
        n == Len(files)
        idle == [j \in 1..n |-> IdleFile]
        noop == [evt |-> [defaultPrevented |-> FALSE], hf |-> [pc |-> "returned", i |-> 0],
                 hs |-> idle, notices |-> {}, issued |-> {}]
        bad == {j \in 1..n : ~Supported(files[j])}
        firstBad == CHOOSE j \in bad : \A k \in bad : j <= k
        b == BeginSingleFile(1, files[1], st, mv, v)
    IN  IF dt.isNull THEN noop
        ELSE IF ~shouldHandleAccordingToConfig(st, mv) THEN noop
        ELSE IF n = 0 THEN noop
        ELSE IF bad # {}
             THEN [noop EXCEPT !.notices = {Notice("unsupported", firstBad, <<>>)}]
        ELSE [evt |-> [defaultPrevented |-> TRUE], hf |-> [pc |-> "loop", i |-> 1],
              hs |-> [idle EXCEPT ![1] = b.rec], notices |-> b.notes, issued |-> b.calls]

FileIdx == DOMAIN hs

Settled(i) == hs[i].pc \in {"idle", "threw", "done"}

\* nothing of the current event is still running
Quiescent == hf.pc # "loop" /\ \A i \in FileIdx : Settled(i)

Init ==
    /\ vault = {DailyNote.path, RootNote.path}
    /\ dataTransfer = [isNull |-> TRUE, files |-> <<>>]
    /\ settings = AllNotes
    /\ markdownView = [file |-> <<>>]
    /\ evt = [defaultPrevented |-> FALSE]
    /\ hf = [pc |-> "idle", i |-> 0]
    /\ hs = <<>>
    /\ inserted = <<>>
    /\ notices = {}
    /\ issued = {}
    /\ call = NoCall

\* a drop or paste event arrives and handleFiles runs to its first suspension
Drop(dt, st, mv) ==
    /\ hf.pc = "idle"
    /\ Cardinality(Attachments(vault)) + Len(dt.files) <= MaxVault
    /\ \E r \in {HandleFilesSync(dt, st, mv, vault)} :
           /\ evt' = r.evt
           /\ hf' = r.hf
           /\ hs' = r.hs
           /\ notices' = r.notices
           /\ issued' = r.issued
    /\ dataTransfer' = dt
    /\ settings' = st
    /\ markdownView' = mv
    /\ inserted' = <<>>
    /\ UNCHANGED <<vault, call>>

\* imageCompression resolves: handleSingleFile counts the prefix, computes
\* the path and asks for the directory
CompressDone(i) ==
    /\ hs[i].pc = "compress"
    /\ LET t == TargetOf(dataTransfer.files[i], settings, markdownView, vault)
       IN  /\ hs' = [hs EXCEPT ![i].pc = "mkdir",
                               ![i].fileSaveSubDir = t.fileSaveSubDir,
                               ![i].filePath = t.filePath]
           /\ issued' = issued \cup
                  {[op |-> "createDirs", file |-> i, path |-> t.fileSaveSubDir]}
    /\ UNCHANGED <<vault, dataTransfer, settings, markdownView, evt, hf, inserted, notices, call>>

\* imageCompression rejects: nothing catches it, so handleSingleFile and
\* with it handleFiles reject, and the files after i are never started
CompressFail(i) ==
    /\ hs[i].pc = "compress"
    /\ hs' = [hs EXCEPT ![i].pc = "threw"]
    /\ hf' = [hf EXCEPT !.pc = "rejected"]
    /\ UNCHANGED <<vault, dataTransfer, settings, markdownView, evt, inserted, notices, issued, call>>

\* createDirsIfNotExists resolves: the reader's onloadend is set, the read is
\* started and handleSingleFile returns handleSuccess as it stands; handleFiles
\* goes on with the next file, or resolves after the last
MkdirDone(i) ==
    /\ hs[i].pc = "mkdir"
    /\ LET n == Len(dataTransfer.files)
           here == [hs[i] EXCEPT !.pc = "reading", !.returned = <<hs[i].handleSuccess>>]
           b == BeginSingleFile(i + 1, dataTransfer.files[i + 1], settings, markdownView, vault)
       IN  IF i < n
           THEN /\ hs' = [hs EXCEPT ![i] = here, ![i + 1] = b.rec]
                /\ hf' = [hf EXCEPT !.i = i + 1]
                /\ notices' = notices \cup b.notes
                /\ issued' = issued \cup b.calls
           ELSE /\ hs' = [hs EXCEPT ![i] = here]
                /\ hf' = [hf EXCEPT !.pc = "resolved"]
                /\ UNCHANGED <<notices, issued>>
    /\ UNCHANGED <<vault, dataTransfer, settings, markdownView, evt, inserted, call>>

\* reader.result of file i for what the read ended with
ResultOf(i, payload) ==
    IF payload = <<>> THEN <<>>
    ELSE <<"data:" \o dataTransfer.files[i].type \o ";base64," \o payload[1]>>

\* reader.result?.toString().split(",")[1]: <<>> when undefined
Base64Of(result) ==
    IF result = <<>> THEN <<>>
    ELSE LET parts == Split(result[1], ",")
         IN  IF Len(parts) < 2 THEN <<>> ELSE <<parts[2]>>

FileLinkOf(filePath, resizeWidth) ==
    "![[" \o filePath \o
        (IF resizeWidth # -1 THEN "|" \o ToString(resizeWidth) ELSE "") \o "]]"

\* a plausible slip: the lookup misses the entry (a path compared unstripped)
getAbstractFileByPath_Miss(v, filePath) == FALSE

\* app.vault.getAbstractFileByPath(filePath), as a truth value
getAbstractFileByPath(v, filePath) == filePath \in v

\* the reader's loadend event: onloadend runs createAndInsertWithFileReader
\* up to its return, or up to the binary write it awaits
ReadDone(i, payload) ==
    /\ hs[i].pc = "reading"
    /\ LET result == ResultOf(i, payload)
           base64 == Base64Of(result)
           raw == hs[i].filePath
           fileLink == FileLinkOf(raw, settings.resizeWidth)
           filePath == IF CharAt(raw, 1) = "/" THEN SubSeq(raw, 2, Len(raw)) ELSE raw
       IN  IF base64 = <<>> \/ base64 = <<"">>
           THEN /\ notices' = notices \cup {Notice("base64 is empty", i, <<>>)}
                /\ hs' = [hs EXCEPT ![i].pc = "done", ![i].result = result,
                                    ![i].ret = <<FALSE>>, ![i].handleSuccess = FALSE]
                /\ UNCHANGED <<inserted, issued>>
           ELSE IF getAbstractFileByPath(vault, filePath)
           THEN /\ notices' = notices \cup {Notice("already exists", i, <<>>)}
                /\ inserted' = Append(inserted, [file |-> i, link |-> fileLink])
                /\ hs' = [hs EXCEPT ![i].pc = "done", ![i].result = result,
                                    ![i].ret = <<TRUE>>, ![i].handleSuccess = TRUE]
                /\ UNCHANGED issued
           ELSE /\ issued' = issued \cup
                       {[op |-> "createBinary", file |-> i, path |-> filePath]}
                /\ hs' = [hs EXCEPT ![i].pc = "writing", ![i].result = result]
                /\ UNCHANGED <<inserted, notices>>
    /\ UNCHANGED <<vault, dataTransfer, settings, markdownView, evt, hf, call>>

\* vault.createBinary resolves: the file exists from now on, the link is
\* inserted and createAndInsertWithFileReader returns true
WriteOk(i) ==
    /\ hs[i].pc = "writing"
    /\ hs[i].filePath \notin vault
    /\ vault' = vault \cup {hs[i].filePath}
    /\ inserted' = Append(inserted,
           [file |-> i, link |-> FileLinkOf(hs[i].filePath, settings.resizeWidth)])
    /\ hs' = [hs EXCEPT ![i].pc = "done", ![i].ret = <<TRUE>>, ![i].handleSuccess = TRUE]
    /\ UNCHANGED <<dataTransfer, settings, markdownView, evt, hf, notices, issued, call>>

\* a plausible slip: the catch block raises its Notice and returns false
\* without inserting the link
WriteErr_NoLink(i) ==
    /\ hs[i].pc = "writing"
    /\ notices' = notices \cup {Notice("failed to create", i, <<0>>)}
    /\ hs' = [hs EXCEPT ![i].pc = "done", ![i].ret = <<FALSE>>, ![i].handleSuccess = FALSE]
    /\ UNCHANGED <<vault, dataTransfer, settings, markdownView, evt, hf, inserted, issued, call>>

\* vault.createBinary rejects (a storage error, or a file that has come to
\* exist at the path meanwhile): a Notice of duration 0, the link all the
\* same, and createAndInsertWithFileReader returns false
WriteErr(i) ==
    /\ hs[i].pc = "writing"
    /\ notices' = notices \cup {Notice("failed to create", i, <<0>>)}
    /\ inserted' = Append(inserted,
           [file |-> i, link |-> FileLinkOf(hs[i].filePath, settings.resizeWidth)])
    /\ hs' = [hs EXCEPT ![i].pc = "done", ![i].ret = <<FALSE>>, ![i].handleSuccess = FALSE]
    /\ UNCHANGED <<vault, dataTransfer, settings, markdownView, evt, hf, issued, call>>

\* every promise and callback of the event has settled: its run is over and
\* its readers and closures are released
Release ==
    /\ hf.pc # "idle"
    /\ Quiescent
    /\ dataTransfer' = [isNull |-> TRUE, files |-> <<>>]
    /\ settings' = AllNotes
    /\ markdownView' = [file |-> <<>>]
    /\ evt' = [defaultPrevented |-> FALSE]
    /\ hf' = [pc |-> "idle", i |-> 0]
    /\ hs' = <<>>
    /\ inserted' = <<>>
    /\ notices' = {}
    /\ issued' = {}
    /\ UNCHANGED <<vault, call>>

\* the user deletes an attachment from the vault between two events
Delete(p) ==
    /\ hf.pc = "idle"
    /\ p \in Attachments(vault)
    /\ vault' = vault \ {p}
    /\ UNCHANGED <<dataTransfer, settings, markdownView, evt, hf, hs, inserted, notices, issued, call>>

Next ==
    \/ \E dt \in DataTransfers, st \in SettingsChoices, mv \in Views : Drop(dt, st, mv)
    \/ \E i \in FileIdx : CompressDone(i)
    \/ \E i \in FileIdx : CompressFail(i)
    \/ \E i \in FileIdx : MkdirDone(i)
    \/ \E i \in FileIdx, payload \in Payloads : ReadDone(i, payload)
    \/ \E i \in FileIdx : WriteOk(i)
    \/ \E i \in FileIdx : WriteErr(i)
    \/ Release
    \/ \E p \in vault : Delete(p)

Spec == Init /\ [][Next]_vars

(***************************************************************************)
(* The utility functions, called on their own: each action is one call,    *)
(* on arguments drawn from the sets below, and leaves in `call` the        *)
(* arguments and the outcome until the caller returns.                     *)
(***************************************************************************)
\* the hours of a day: dayjs().get('hour') and the boundary-hour setting
Hours == 0..23

Day(y, m, d) == [year |-> y, month |-> m, day |-> d]

\* dates in mid-month, on the first day of a month and of a year, after a
\* leap day and after the last day of a common February
Dates ==
    {Day(2024, 1, 15), Day(2024, 1, 1), Day(2024, 3, 1), Day(2023, 3, 1),
     Day(2024, 2, 29), Day(2023, 12, 31)}

\* date formats isValidDateFormat accepts (none contains "/")
DateFormats == {"YYYY-MM-DD", "DD-MM-YYYY", "YYYY.MM.DD", "[Day] YYYY-MM-DD"}

RootDirs == {"diary"}

\* paths of notes: daily notes in and out of a directory, names that are
\* no date or no calendar date, and a name without text before its dot
NotePaths ==
    {"notes/2024-01-15.md", "2024-01-15.md", "diary/2024/Jan/2024-01-15.md",
     "notes/2024-02-30.md", "notes/2024-1-15.md", "notes/todo.md", "todo.md",
     "notes/15-01-2024.md", "notes/.md", "notes/2024.01.15.md"}

\* the files a vault may hold when its attachments are counted
VaultPaths ==
    {"notes/2024-01-15.md", "todo.md", "notes/images/2024-01-15-image.png",
     "notes/images/2024-01-15-image-1.png", "notes/others/2024-01-15-r.pdf",
     "images/todo-image.png"}

CountDirs == {"", "notes", "notes/images"}

CountPrefixes == {"2024-01-15", "todo", "2024-01-15-image"}

CallGetDailyNoteName(hour, assumeSameDayBeforeHour, dateFormat, date, consider) ==
    /\ call = NoCall
    /\ call' = [op |-> "getDailyNoteName", hour |-> hour,
                assumeSameDayBeforeHour |-> assumeSameDayBeforeHour,
                dateFormat |-> dateFormat, date |-> date, consider |-> consider,
                out |-> getDailyNoteName(hour, assumeSameDayBeforeHour,
                                         dateFormat, date, consider)]
    /\ UNCHANGED <<vault, dataTransfer, settings, markdownView, evt, hf, hs, inserted, notices, issued>>

CallGetMonthDirPath(hour, rootDir, assumeSameDayBeforeHour, date, consider) ==
    /\ call = NoCall
    /\ call' = [op |-> "getMonthDirPath", hour |-> hour, rootDir |-> rootDir,
                assumeSameDayBeforeHour |-> assumeSameDayBeforeHour,
                date |-> date, consider |-> consider,
                out |-> getMonthDirPath(hour, rootDir, assumeSameDayBeforeHour,
                                        date, consider)]
    /\ UNCHANGED <<vault, dataTransfer, settings, markdownView, evt, hf, hs, inserted, notices, issued>>

CallGetDailyNotePath(hour, rootDir, assumeSameDayBeforeHour, dateFormat, date) ==
    /\ call = NoCall
    /\ call' = [op |-> "getDailyNotePath", hour |-> hour, rootDir |-> rootDir,
                assumeSameDayBeforeHour |-> assumeSameDayBeforeHour,
                dateFormat |-> dateFormat, date |-> date,
                out |-> getDailyNotePath(hour, rootDir, assumeSameDayBeforeHour,
                                         dateFormat, date)]
    /\ UNCHANGED <<vault, dataTransfer, settings, markdownView, evt, hf, hs, inserted, notices, issued>>

\* checkValidDailyNotePath on the path of some note
CallCheckValidDailyNotePath(notePath, dateFormat) ==
    /\ call = NoCall
    /\ call' = [op |-> "checkValidDailyNotePath", notePath |-> notePath,
                dateFormat |-> dateFormat, made |-> <<>>,
                out |-> checkValidDailyNotePath(notePath, dateFormat)]
    /\ UNCHANGED <<vault, dataTransfer, settings, markdownView, evt, hf, hs, inserted, notices, issued>>

\* checkValidDailyNotePath on the path getDailyNotePath has just returned,
\* under the same date format; made is the date the path was made for
CallCheckReturnedPath ==
    /\ call.op = "getDailyNotePath"
    /\ call' = [op |-> "checkValidDailyNotePath", notePath |-> call.out.ret,
                dateFormat |-> call.dateFormat, made |-> <<call.out.date>>,
                out |-> checkValidDailyNotePath(call.out.ret, call.dateFormat)]
    /\ UNCHANGED <<vault, dataTransfer, settings, markdownView, evt, hf, hs, inserted, notices, issued>>

CallCountFilesWithSamePrefix(v, dirPath, prefix) ==
    /\ call = NoCall
    /\ call' = [op |-> "countFilesWithSamePrefix", vault |-> v,
                dirPath |-> dirPath, prefix |-> prefix,
                out |-> countFilesWithSamePrefix(v, dirPath, prefix)]
    /\ UNCHANGED <<vault, dataTransfer, settings, markdownView, evt, hf, hs, inserted, notices, issued>>

\* the caller is done with the outcome of the call
Return ==
    /\ call # NoCall
    /\ call' = NoCall
    /\ UNCHANGED <<vault, dataTransfer, settings, markdownView, evt, hf, hs, inserted, notices, issued>>

\* a call is made only when no other is under way, which is tested before
\* its arguments are drawn
UtilNext ==
    \/ /\ call = NoCall
       /\ \E hour \in Hours, h \in Hours, f \in {"YYYY-MM-DD"}, d \in Dates, consider \in BOOLEAN :
              CallGetDailyNoteName(hour, h, f, d, consider)
    \/ /\ call = NoCall
       /\ \E hour \in Hours, r \in RootDirs, h \in Hours, d \in Dates, consider \in BOOLEAN :
              CallGetMonthDirPath(hour, r, h, d, consider)
    \/ /\ call = NoCall
       /\ \E hour \in Hours, r \in RootDirs, h \in Hours, f \in DateFormats, d \in Dates :
              CallGetDailyNotePath(hour, r, h, f, d)
    \/ /\ call = NoCall
       /\ \E p \in NotePaths, f \in DateFormats : CallCheckValidDailyNotePath(p, f)
    \/ CallCheckReturnedPath
    \/ /\ call = NoCall
       /\ \E v \in SUBSET VaultPaths, dirPath \in CountDirs, prefix \in CountPrefixes :
              CallCountFilesWithSamePrefix(v, dirPath, prefix)
    \/ Return

UtilSpec == Init /\ [][UtilNext]_vars

(***************************************************************************)
(* What the claims speak of.                                               *)
(***************************************************************************)
files == dataTransfer.files

IsImage(i) == StartsWith(files[i].type, "image")

\* the replaceSelection calls made for file i
RefsOf(i) == {k \in 1..Len(inserted) : inserted[k].file = i}

\* the link to file i's target path
LinkOf(i) == FileLinkOf(hs[i].filePath, settings.resizeWidth)

WriteIssued(i) == \E c \in issued : c.op = "createBinary" /\ c.file = i

\* file i's binary write was issued and has failed
WriteFailed(i) == WriteIssued(i) /\ hs[i].pc = "done" /\ hs[i].ret = <<FALSE>>

\* file i's binary write was issued and has succeeded
Written(i) == WriteIssued(i) /\ hs[i].pc = "done" /\ hs[i].ret = <<TRUE>>

\* file i's read has ended without a usable base64 payload
EmptyPayload(result) == Base64Of(result) \in {<<>>, <<"">>}

(***************************************************************************)
(* C1: handleSingleFile's promise for file i resolves, the next file is    *)
(* begun and handleFiles resolves only once file i's read, persist and     *)
(* reference insertion have all completed.                                 *)
(***************************************************************************)
C1_FileCompleteBeforeNext ==
    /\ \A i \in FileIdx : hs[i].returned # <<>> => hs[i].pc = "done"
    /\ \A i \in FileIdx : (i > 1 /\ hs[i].pc # "idle") => hs[i - 1].pc = "done"
    /\ hf.pc = "resolved" => \A i \in FileIdx : hs[i].pc = "done"

(***************************************************************************)
(* C2: under every scheduling of the read completions and the storage      *)
(* writes, references are inserted in input order: the reference of fi     *)
(* before that of fj whenever i < j.                                       *)
(***************************************************************************)
C2_InsertedInInputOrder ==
    \A a, b \in 1..Len(inserted) : a < b => inserted[a].file < inserted[b].file

(***************************************************************************)
(* C3: the boolean handleSingleFile returns for a file reflects that       *)
(* file's persistence: false when its storage write fails, true when the   *)
(* write succeeds.                                                         *)
(***************************************************************************)
C3_ResultReflectsWrite ==
    \A i \in FileIdx :
        /\ WriteFailed(i) => hs[i].returned = <<FALSE>>
        /\ Written(i) => hs[i].returned = <<TRUE>>

(***************************************************************************)
(* C4: when file i's storage write fails, exactly one reference to the     *)
(* intended path is inserted for it and a persistent (duration 0) notice   *)
(* is raised; the failure does not stop the batch: a later file that has   *)
(* not been begun is still going to be begun by the loop (or the loop was  *)
(* ended by a rejected compression, never by the write failure), and once  *)
(* handleFiles has resolved and everything has settled every later file    *)
(* has been read, and those whose own read and write succeeded are         *)
(* persisted and referenced exactly once.                                  *)
(***************************************************************************)
C4_WriteFailureContained ==
    \A i \in FileIdx : WriteFailed(i) =>
        /\ Cardinality(RefsOf(i)) = 1
        /\ \A k \in RefsOf(i) : inserted[k].link = LinkOf(i)
        /\ \E n \in notices : n.file = i /\ n.kind = "failed to create" /\ Persistent(n)
        /\ \A n \in notices : n.file = i /\ n.kind = "failed to create" => Persistent(n)
        /\ hf.pc = "rejected" => \E k \in FileIdx : hs[k].pc = "threw"
        /\ \A j \in FileIdx : (j > i /\ hs[j].pc = "idle") =>
               \/ hf.pc = "rejected"
               \/ hf.pc = "loop" /\ hf.i < j /\ hs[hf.i].pc \in {"compress", "mkdir"}
        /\ (Quiescent /\ hf.pc = "resolved") =>
               \A j \in FileIdx : j > i =>
                   /\ hs[j].pc = "done"
                   /\ hs[j].ret # <<>>
                   /\ hs[j].ret = <<TRUE>> =>
                          /\ hs[j].filePath \in vault
                          /\ Cardinality(RefsOf(j)) = 1
                          /\ \A k \in RefsOf(j) : inserted[k].link = LinkOf(j)

\* a write failure of the first file, the second file written and referenced
C4_Witness ==
    /\ Quiescent
    /\ hf.pc = "resolved"
    /\ \E i, j \in FileIdx : i < j /\ WriteFailed(i) /\ Written(j)

(***************************************************************************)
(* C5: the type filter is all-or-nothing: if any file of the batch, at any *)
(* position, has a MIME type that neither starts with "image" nor is       *)
(* application/zip nor application/pdf, handleFiles writes no file,        *)
(* creates no directory, inserts no reference and does not prevent the     *)
(* event's default, for any file of the batch.                             *)
(***************************************************************************)
C5_TypeFilterAllOrNothing ==
    (/\ hf.pc # "idle"
     /\ \E k \in 1..Len(files) :
            /\ ~StartsWith(files[k].type, "image")
            /\ files[k].type # "application/zip"
            /\ files[k].type # "application/pdf")
    => /\ issued = {}
       /\ inserted = <<>>
       /\ ~evt.defaultPrevented
       /\ hf.pc = "returned"
       /\ \A i \in FileIdx : hs[i].pc = "idle"

\* a batch whose first file is an image and whose second is text/plain,
\* dropped where the gate lets it through, is rejected with a notice
C5_Witness ==
    /\ hf.pc = "returned"
    /\ Len(files) = 2
    /\ files[1] = PngFile
    /\ files[2] = TxtFile
    /\ \E n \in notices : n.kind = "unsupported" /\ n.file = 2

(***************************************************************************)
(* C6: handleFiles is a no-op (no storage call, no document edit, no       *)
(* notice, default not prevented) whenever the event carries no files, or  *)
(* the view has no backing file, or the scenario is "disabled", or the     *)
(* scenario is "daily notes only" and checkValidDailyNotePath of the       *)
(* document path returns null; in every other case the batch reaches the   *)
(* type filter, which either rejects it with its notice or prevents the    *)
(* event's default.                                                        *)
(***************************************************************************)
C6_Gate ==
    hf.pc # "idle" =>
        IF \/ dataTransfer.isNull
           \/ Len(files) = 0
           \/ markdownView.file = <<>>
           \/ settings.fileHandlingScenario = "disabled"
           \/ /\ settings.fileHandlingScenario = "daily notes only"
              /\ checkValidDailyNotePath(markdownView.file[1].path, settings.dateFormat) = <<>>
        THEN /\ issued = {}
             /\ inserted = <<>>
             /\ notices = {}
             /\ ~evt.defaultPrevented
             /\ hf.pc = "returned"
             /\ \A i \in FileIdx : hs[i].pc = "idle"
        ELSE \/ evt.defaultPrevented /\ hf.pc # "returned"
             \/ hf.pc = "returned" /\ \E n \in notices : n.kind = "unsupported"

\* supported files dropped on a note that is no daily note, under "daily
\* notes only": nothing happens
C6_Witness ==
    /\ hf.pc = "returned"
    /\ settings.fileHandlingScenario = "daily notes only"
    /\ markdownView.file = <<RootNote>>
    /\ Len(files) > 0
    /\ \A k \in 1..Len(files) : Supported(files[k])
    /\ notices = {}

(***************************************************************************)
(* C7, as stated: when a storage entry already exists at the target path   *)
(* at the time createAndInsertWithFileReader runs, no write is issued and  *)
(* the storage is left unchanged, exactly one reference to that path is    *)
(* inserted, a notice is shown and the call returns true.                  *)
(***************************************************************************)
C7_DedupWhenExists ==
    [][\A i \in FileIdx :
          (/\ hs[i].pc = "reading"
           /\ hs'[i].pc # "reading"
           /\ hs[i].filePath \in vault)
          => /\ vault' = vault
             /\ issued' = issued
             /\ inserted' = Append(inserted, [file |-> i, link |-> LinkOf(i)])
             /\ \E n \in notices' \ notices : n.file = i
             /\ hs'[i].pc = "done"
             /\ hs'[i].ret = <<TRUE>>]_vars

(***************************************************************************)
(* C7, amended: the same, provided the read has yielded a non-empty        *)
(* base64 payload (an empty or undefined payload is the decode error,      *)
(* which is tested first and inserts nothing).                             *)
(***************************************************************************)
C7_DedupWhenExistsAndDecoded ==
    [][\A i \in FileIdx :
          (/\ hs[i].pc = "reading"
           /\ hs'[i].pc # "reading"
           /\ hs[i].filePath \in vault
           /\ ~EmptyPayload(hs'[i].result))
          => /\ vault' = vault
             /\ issued' = issued
             /\ inserted' = Append(inserted, [file |-> i, link |-> LinkOf(i)])
             /\ \E n \in notices' \ notices : n.file = i
             /\ hs'[i].pc = "done"
             /\ hs'[i].ret = <<TRUE>>]_vars

\* a file whose target path existed when its read ended: linked, not written
C7_Witness ==
    \E i \in FileIdx :
        /\ hs[i].pc = "done"
        /\ hs[i].filePath \in vault
        /\ ~WriteIssued(i)
        /\ ~EmptyPayload(hs[i].result)
        /\ \E n \in notices : n.file = i /\ n.kind = "already exists"

(***************************************************************************)
(* C8: each file of an accepted batch of n images (decodable bytes, no     *)
(* storage failure) yields its own saved attachment: once everything has   *)
(* settled there are n distinct newly created entries, each referenced     *)
(* exactly once, and no two files of the batch have the same target path.  *)
(***************************************************************************)
C8_OneAttachmentPerFile ==
    (/\ Quiescent
     /\ hf.pc = "resolved"
     /\ \A i \in FileIdx : IsImage(i) /\ ~EmptyPayload(hs[i].result) /\ ~WriteFailed(i))
    => /\ \A i, j \in FileIdx : i # j => hs[i].filePath # hs[j].filePath
       /\ \A i \in FileIdx : Written(i) /\ Cardinality(RefsOf(i)) = 1

(***************************************************************************)
(* C9: the name derived for a dropped image is collision-free: in every    *)
(* vault state reached by image drops and attachment deletions, the path   *)
(* computed for a newly dropped image is not the path of an attachment     *)
(* that already exists.                                                    *)
(***************************************************************************)
C9_ImagePathIsFresh ==
    [][\A i \in DOMAIN hs' :
          (/\ StartsWith(dataTransfer'.files[i].type, "image")
           /\ hs'[i].filePath # ""
           /\ (i \notin DOMAIN hs \/ hs[i].filePath = ""))
          => hs'[i].filePath \notin vault]_vars

(***************************************************************************)
(* C10: when the read yields an empty or undefined base64 payload,         *)
(* createAndInsertWithFileReader inserts no reference, issues no storage   *)
(* write, raises a persistent notice and returns false.                    *)
(***************************************************************************)
C10_DecodeError ==
    \A i \in FileIdx :
        (hs[i].pc = "done" /\ EmptyPayload(hs[i].result)) =>
            /\ RefsOf(i) = {}
            /\ ~WriteIssued(i)
            /\ hs[i].ret = <<FALSE>>
            /\ \E n \in notices : n.file = i /\ n.kind = "base64 is empty" /\ Persistent(n)

\* a step of file i's processing has failed: its compression rejected, its
\* read gave no payload, or its binary write rejected
FailedFile(i) == hs[i].pc = "threw" \/ (hs[i].pc = "done" /\ hs[i].ret = <<FALSE>>)

\* a Notice that reports a failure of file i
FailureNotice(n, i) ==
    n.file = i /\ n.kind \in {"base64 is empty", "failed to create"}

(***************************************************************************)
(* C11: failures are contained per file: once an accepted batch has        *)
(* settled, a failure in any step of file i (size-limiting transform,      *)
(* read, decode, storage write) has not kept any later file of the batch   *)
(* from being processed: every later file has been begun and has run to    *)
(* its own end.                                                            *)
(***************************************************************************)
C11_FailureContainedPerFile ==
    \A i \in FileIdx : (Quiescent /\ FailedFile(i)) =>
        \A j \in FileIdx : j > i => hs[j].pc \in {"done", "threw"}

(***************************************************************************)
(* C12: every failure while handling a batch ends in a user-visible notice *)
(* about it and in a normally resolved promise: handleFiles never rejects, *)
(* no handleSingleFile throws, and each failed file has its failure        *)
(* notice.                                                                 *)
(***************************************************************************)
C12_NoFailureEscapes ==
    /\ hf.pc # "rejected"
    /\ \A i \in FileIdx :
           /\ hs[i].pc # "threw"
           /\ FailedFile(i) => \E n \in notices : FailureNotice(n, i)

(***************************************************************************)
(* What the claims about the utility functions speak of.                   *)
(***************************************************************************)
IsCalendarDate(d) ==
    d.month \in 1..12 /\ d.day >= 1 /\ d.day <= DaysInMonth(d.year, d.month)

\* the days of a common year before each month
DaysBeforeMonth == <<0, 31, 59, 90, 120, 151, 181, 212, 243, 273, 304, 334>>

\* the number of the day in the proleptic Gregorian calendar
DayNumber(d) ==
    LET y == d.year - 1
    IN  365 * y + (y \div 4) - (y \div 100) + (y \div 400)
            + DaysBeforeMonth[d.month]
            + (IF d.month > 2 /\ IsLeap(d.year) THEN 1 ELSE 0)
            + d.day

\* e is the calendar date n days before d
DaysEarlier(d, e, n) == IsCalendarDate(e) /\ DayNumber(e) = DayNumber(d) - n

\* rootDir/YYYY/Mon of a date
MonthDirOf(rootDir, d) == rootDir \o "/" \o ToString(d.year) \o "/" \o MonthShort(d)

\* a file name without its extension: the text before its last dot
StripExtension(name) ==
    LET dots == {k \in 1..Len(name) : CharAt(name, k) = "."}
    IN  IF dots = {} THEN name
        ELSE SubSeq(name, 1, (CHOOSE k \in dots : \A h \in dots : h <= k) - 1)

(***************************************************************************)
(* C13: checkValidDailyNotePath(path, format) returns a date if and only   *)
(* if the last path segment, its extension stripped, strictly matches the  *)
(* format as a valid calendar date and the path has at least two segments; *)
(* "2024-01-15.md" under "YYYY-MM-DD" gives null and                       *)
(* "notes/2024-01-15.md" gives the date 2024-01-15.                        *)
(***************************************************************************)
C13_DateIffStrictMatchInDirectory ==
    call.op = "checkValidDailyNotePath" =>
        LET segs == Split(call.notePath, "/")
            name == StripExtension(Last(segs))
            parsed == dayjsStrict(name, call.dateFormat)
        IN  /\ call.out # <<>> <=> (parsed # <<>> /\ Len(segs) >= 2)
            /\ call.out # <<>> => call.out = parsed
            /\ (call.notePath = "2024-01-15.md" /\ call.dateFormat = "YYYY-MM-DD")
                   => call.out = <<>>
            /\ (call.notePath = "notes/2024-01-15.md" /\ call.dateFormat = "YYYY-MM-DD")
                   => call.out = <<Day(2024, 1, 15)>>

C15_LogicalDateAtMostOneDayEarlier ==
    call.op = "getDailyNotePath" =>
        /\ \/ call.out.date = call.date
           \/ DaysEarlier(call.date, call.out.date, 1)
        /\ call.out.noteName = formatDate(call.dateFormat, call.out.date)
        /\ call.out.dirPath = MonthDirOf(call.rootDir, call.out.date)

\* a call at an hour where both boundary tests are true: one day earlier,
\* not two
C15_Witness ==
    /\ call.op = "getDailyNotePath"
    /\ call.hour + 1 < call.assumeSameDayBeforeHour
    /\ call.date = Day(2024, 3, 1)
    /\ call.out.date = Day(2024, 2, 29)

(***************************************************************************)
(* C16, as stated: getDailyNotePath applies the boundary rule in both      *)
(* computations: the note name is computed with the flag true (the date    *)
(* is decremented iff c < h) and the month directory is computed with the  *)
(* flag true as well (the date is decremented iff c + 1 < h).              *)
(***************************************************************************)
C16_BoundaryRuleInBoth ==
    call.op = "getDailyNotePath" =>
        /\ call.out.nameDec <=> call.hour < call.assumeSameDayBeforeHour
        /\ call.out.dirDec <=> call.hour + 1 < call.assumeSameDayBeforeHour

(***************************************************************************)
(* C16, amended: getDailyNotePath applies the boundary rule in the note    *)
(* name computation only (flag true: the date is decremented iff c < h);   *)
(* the month directory is computed with the flag at its default, false,    *)
(* from the date object the note name computation has left, and never      *)
(* decrements it again.                                                    *)
(***************************************************************************)
C16_BoundaryRuleInNameOnly ==
    call.op = "getDailyNotePath" =>
        /\ call.out.nameDec <=> call.hour < call.assumeSameDayBeforeHour
        /\ ~call.out.dirDec
        /\ IF call.hour < call.assumeSameDayBeforeHour
           THEN DaysEarlier(call.date, call.out.date, 1)
           ELSE call.out.date = call.date
        /\ call.out.dirPath = MonthDirOf(call.rootDir, call.out.date)

\* a call two hours or more before the boundary: the name computation has
\* decremented the date, the month directory computation has not
C16_Witness ==
    /\ call.op = "getDailyNotePath"
    /\ call.hour + 1 < call.assumeSameDayBeforeHour
    /\ call.out.nameDec
    /\ ~call.out.dirDec
    /\ call.date = Day(2024, 1, 1)
    /\ call.out.ret = "diary/2023/Dec/2023-12-31.md"

(***************************************************************************)
(* C17: round trip: for every unambiguous date format F without "/"        *)
(* (separators "." and escaped literal text included) and every date D,    *)
(* checkValidDailyNotePath of monthDir/formatDate(F, D).md under F gives   *)
(* the calendar day D.                                                     *)
(***************************************************************************)
C17_RoundTrip ==
    (call.op = "checkValidDailyNotePath" /\ call.made # <<>>) =>
        call.out = call.made

(***************************************************************************)
(* C18: countFilesWithSamePrefix(dirPath, prefix) is the number of vault   *)
(* file paths that start with dirPath, contain prefix and do not end with  *)
(* ".md"; a path ending in ".md" is never counted.                         *)
(***************************************************************************)
C18_CountOfAttachmentsWithPrefix ==
    call.op = "countFilesWithSamePrefix" =>
        /\ call.out = Cardinality({path \in call.vault :
                                      /\ StartsWith(path, call.dirPath)
                                      /\ Contains(path, call.prefix)
                                      /\ ~EndsWith(path, ".md")})
        /\ call.out <= Cardinality({path \in call.vault : ~EndsWith(path, ".md")})

\* a vault with the note itself, an image and a pdf of that note: two counted
C18_Witness ==
    /\ call.op = "countFilesWithSamePrefix"
    /\ call.vault = {"notes/2024-01-15.md", "notes/images/2024-01-15-image.png",
                     "notes/others/2024-01-15-r.pdf"}
    /\ call.dirPath = "notes"
    /\ call.prefix = "2024-01-15"
    /\ call.out = 2

C20_MonthDirOfTheNamedDate ==
    call.op = "getDailyNotePath" =>
        LET named == dayjsStrict(call.out.noteName, call.dateFormat)
        IN  /\ named # <<>>
            /\ call.out.dirPath = MonthDirOf(call.rootDir, named[1])
            /\ call.out.ret = call.out.dirPath \o "/" \o call.out.noteName \o ".md"

\* a call before the boundary hour on the first day of a year: the note is
\* of the last day of the year before, in that year's December
C20_Witness ==
    /\ call.op = "getDailyNotePath"
    /\ call.date = Day(2024, 1, 1)
    /\ call.hour < call.assumeSameDayBeforeHour
    /\ call.out.noteName = "31-12-2023"
    /\ call.out.dirPath = "diary/2023/Dec"

====
